---- MODULE Spec2Model ----
(***************************************************************************)
(* Model of the service-telemetry core: the priority admission controller  *)
(* (ConcurrencyLimiter over a container/heap PriorityQueue, a buffered     *)
(* channel used as semaphore, a sync.Mutex and a sync.Cond) and the probe  *)
(* orchestrator (ServiceChecker.CheckTarget with its result cache).        *)
(*                                                                         *)
(* Goroutines are modelled as processes with a program counter.  A step of *)
(* a goroutine is one action; steps taken while the goroutine owns cl.mu   *)
(* are kept apart wherever the lock-free channel receive of Release can    *)
(* interleave with them.  A panic runs the deferred Unlock and leaves the  *)
(* goroutine in "panicked"; the behaviours in which the runtime then ends  *)
(* the process are the prefixes of the behaviours below (stuttering).      *)
(***************************************************************************)
EXTENDS Integers, Sequences, FiniteSets, TLC

\* ------------------------------------------------------------------ bounds
NumCallers == 3
MaxCap == 2
NumCheckers == 1
MaxRetryBound == 3
MaxTTLTicks == 1
MaxCertHours == 200
MaxBackoffRetry == 66

\* --------------------------------------------------------- program constants
PriorityLow == 0
PriorityNormal == 1
PriorityHigh == 2
Unlocked == 0
BaseMs == 100
BaseNs == 100000000
DurationBits == 64

Priorities == {PriorityLow, PriorityNormal, PriorityHigh}
Callers == 1..NumCallers
Closer == NumCallers + 1

VARIABLES
  semCap,     \* cap(cl.sem)
  semLen,     \* len(cl.sem): tokens buffered in the channel
  semClosed,  \* close(cl.sem) has run
  pq,         \* cl.pq: the heap's slice, a sequence of tasks (a task is named by its caller)
  mu,         \* cl.mu: Unlocked or the goroutine that locked it
  closed,     \* cl.closed
  pc,         \* position of each calling goroutine
  prio,       \* task.Priority of each caller's current task
  depth,      \* recursion depth of AcquireWithPriority in each caller
  wokenBy,    \* for a goroutine woken from cond.Wait: what woke it
  closerPc,   \* position of the goroutine calling Close
  closeCalls  \* Close calls that have returned or panicked

limVars == <<semCap, semLen, semClosed, pq, mu, closed, pc, prio, depth,
             wokenBy, closerPc, closeCalls>>

VARIABLES
  maxRetry,   \* sc.cfg.MaxRetry
  cacheTTL,   \* sc.cacheTTL, in milliseconds
  cache,      \* resultCache: a function from the cached URLs to their results
  cacheMu,    \* cacheMu: "free", or "sweep" while CleanExpiredCache owns it
  sweepTodo,  \* the entries the sweep's range loop has still to visit
  swept,      \* the URLs the sweep in progress has deleted
  cpc,        \* position of each goroutine calling CheckTarget
  curl,       \* target.URL of the call
  retry,      \* the loop variable retry
  result,     \* the MonitorResult under construction
  sleepLeft,  \* what is left of the current time.Sleep, in milliseconds
  sleeps,     \* the durations this call has slept, in order
  nProbes,    \* probe attempts this call has made
  nFailed,    \* how many of them failed
  ret,        \* the result the call returned
  targets,    \* the URLs the callers submit
  errType,    \* the variable errType: the kind the latest attempt returned
  nDials      \* calls of net.DialTimeout this call has made

chkVars == <<maxRetry, cacheTTL, cache, cacheMu, sweepTodo, swept, cpc, curl,
             retry, result, sleepLeft, sleeps, nProbes, nFailed, ret,
             targets, errType, nDials>>
VARIABLES
  hx,         \* one GET as the network and the server answer it, with the keyword
  hres,       \* what checkHTTP returned for it and left in the result
  hretry,     \* attempts made on the result that hres holds
  backoff,    \* the slice backoff of CheckTarget, time.Duration values as bits
  bi          \* the loop variable i of the loop that fills it

prbVars == <<hx, hres, hretry, backoff, bi>>

VARIABLES
  wg,         \* the counter of the request's sync.WaitGroup
  wdone,      \* for each target: its goroutine's deferred wg.Done() has run
  hpc         \* position of the goroutine that runs SubmitTargets

hdlVars == <<wg, wdone, hpc>>
vars == <<limVars, chkVars, prbVars, hdlVars>>

\* ------------------------------------------------------------ PriorityQueue
\* Go slices are 0-based, TLA+ sequences 1-based.
At(q, i) == q[i + 1]

LessReversed(q, i, j) == prio[At(q, i)] < prio[At(q, j)]

Less(q, i, j) == prio[At(q, i)] > prio[At(q, j)]

Swap(q, i, j) == [q EXCEPT ![i + 1] = q[j + 1], ![j + 1] = q[i + 1]]

\* Go's integer division truncates toward zero.
GoDiv(a, b) == IF a >= 0 THEN a \div b ELSE -((-a) \div b)

RECURSIVE HeapUp(_, _)
HeapUp(q, j) ==
  LET i == GoDiv(j - 1, 2) IN
    IF i = j \/ ~Less(q, j, i) THEN q ELSE HeapUp(Swap(q, i, j), i)

RECURSIVE HeapDown(_, _, _)
HeapDown(q, i, n) ==
  LET j1 == 2 * i + 1 IN
    IF j1 >= n \/ j1 < 0 THEN q
    ELSE LET j2 == j1 + 1
             j == IF j2 < n /\ Less(q, j2, j1) THEN j2 ELSE j1
         IN IF ~Less(q, j, i) THEN q ELSE HeapDown(Swap(q, i, j), j, n)

\* heap.Push: PriorityQueue.Push appends, then up(Len-1).
HeapPush(q, x) == HeapUp(Append(q, x), Len(q))

\* heap.Pop on a non-empty heap: Swap(0, n), down(0, n), PriorityQueue.Pop.
HeapPopped(q) ==
  LET n == Len(q) - 1 IN HeapDown(Swap(q, 0, n), 0, n)
HeapPopTask(q) == HeapPopped(q)[Len(q)]
HeapPopRest(q) == SubSeq(HeapPopped(q), 1, Len(q) - 1)

\* ------------------------------------------------------------ sync.Cond
Parked == {c \in Callers : pc[c] = "parked"}

\* cond.Broadcast: wakes every goroutine parked in Wait.
Broadcast == {Parked}

\* cond.Signal: wakes one goroutine parked in Wait, if there is any; which
\* one is not part of the documented contract.
Signal == IF Parked = {} THEN {{}} ELSE {{w} : w \in Parked}

\* ------------------------------------------------------------ the channel
SemSendForgotten(n) == n

\* cl.sem <- struct{}{} on an open channel with room
SemSend(n) == n + 1

\* ------------------------------------------------------- ServiceChecker
Checkers == 1..NumCheckers
\* ------------------------------------------------------------ target URLs
\* A URL is the sequence of its characters.
TcpUrl == <<"t", "c", "p", ":", "/", "/", "a", ":", "1">>
HttpUrl == <<"h", "t", "t", "p", ":", "/", "/", "a">>
\* tcp:// with nothing after it, without a port, with a port that is no
\* number and no service name, with a number that is no port, with an
\* empty port, and in upper case
TcpEmptyUrl == <<"t", "c", "p", ":", "/", "/">>
TcpNoPortUrl == <<"t", "c", "p", ":", "/", "/", "a">>
TcpBadPortUrl == <<"t", "c", "p", ":", "/", "/", "a", ":", "x">>
TcpBigPortUrl == <<"t", "c", "p", ":", "/", "/", "a", ":", "9", "9", "9", "9", "9">>
TcpColonUrl == <<"t", "c", "p", ":", "/", "/", "a", ":">>
TcpUpperUrl == <<"T", "C", "P", ":", "/", "/", "a", ":", "1">>
HttpsUrl == <<"h", "t", "t", "p", "s", ":", "/", "/", "b">>
Urls == {TcpUrl, HttpUrl, TcpEmptyUrl, TcpNoPortUrl, TcpBadPortUrl,
         TcpBigPortUrl, TcpColonUrl, TcpUpperUrl, HttpsUrl}

TcpPrefix == <<"t", "c", "p", ":", "/", "/">>

\* strings.ToLower, on the letters of the sample
LowerChar(ch) ==
  CASE ch = "T" -> "t" [] ch = "C" -> "c" [] ch = "P" -> "p"
    [] ch = "A" -> "a" [] OTHER -> ch
ToLower(str) == [i \in 1..Len(str) |-> LowerChar(str[i])]

\* strings.HasPrefix, strings.TrimPrefix
HasPrefix(str, prefix) ==
  Len(str) >= Len(prefix) /\ SubSeq(str, 1, Len(prefix)) = prefix
TrimPrefix(str, prefix) ==
  IF HasPrefix(str, prefix) THEN SubSeq(str, Len(prefix) + 1, Len(str))
  ELSE str

\* strings.HasPrefix(strings.ToLower(target.URL), "tcp://")
IsTcp(u) == HasPrefix(ToLower(u), TcpPrefix)

\* ------------------------------------------------------------ checkTCP
\* Position of the last ch in str, 0 if there is none.
RECURSIVE LastIndex(_, _, _)
LastIndex(str, ch, i) ==
  IF i = 0 THEN 0 ELSE IF str[i] = ch THEN i ELSE LastIndex(str, ch, i - 1)

\* net.SplitHostPort on an address without brackets: the port is what
\* follows the last colon, and the host before it holds no colon.
SplitHostPort(address) ==
  LET i == LastIndex(address, ":", Len(address)) IN
    IF i = 0 THEN [err |-> "missing port in address", port |-> <<>>]
    ELSE IF LastIndex(address, ":", i - 1) # 0
      THEN [err |-> "too many colons in address", port |-> <<>>]
      ELSE [err |-> "", port |-> SubSeq(address, i + 1, Len(address))]

Digits == {"0", "1", "2", "3", "4", "5", "6", "7", "8", "9"}
DigitValue(ch) ==
  CASE ch = "0" -> 0 [] ch = "1" -> 1 [] ch = "2" -> 2 [] ch = "3" -> 3
    [] ch = "4" -> 4 [] ch = "5" -> 5 [] ch = "6" -> 6 [] ch = "7" -> 7
    [] ch = "8" -> 8 [] ch = "9" -> 9

RECURSIVE Number(_, _)
Number(str, n) ==
  IF n = 0 THEN 0 ELSE 10 * Number(str, n - 1) + DigitValue(str[n])

\* The service names the host resolves for tcp.
ServicePort(name) ==
  IF name = <<"h", "t", "t", "p">> THEN 80 ELSE 0 - 1

LookupPortAny(service) == [err |-> "", port |-> 0]

\* net.LookupPort("tcp", service): the empty service is port 0; a number
\* must lie in 0..65535; anything else is looked up as a service name.
LookupPort(service) ==
  IF service = <<>> THEN [err |-> "", port |-> 0]
  ELSE IF \A i \in 1..Len(service) : service[i] \in Digits
    THEN LET port == Number(service, Len(service)) IN
           IF port > 65535 THEN [err |-> "invalid port", port |-> 0]
           ELSE [err |-> "", port |-> port]
    ELSE IF ServicePort(service) < 0 THEN [err |-> "unknown port", port |-> 0]
    ELSE [err |-> "", port |-> ServicePort(service)]

\* What net.DialTimeout can report: "" for a connection, else the kind
\* the dial error is classified as.
TcpOutcomes == {"", "timeout", "network"}

\* checkTCP(url, result) when the dial, if it comes to it, reports d: the
\* ErrorType returned and whether net.DialTimeout was called.
checkTCP(u, d) ==
  LET address == TrimPrefix(u, TcpPrefix) IN
    IF address = <<>> THEN [kind |-> "invalid", dialed |-> FALSE]
    ELSE LET split == SplitHostPort(address) IN
      IF split.err # "" THEN [kind |-> "invalid", dialed |-> FALSE]
      ELSE IF LookupPort(split.port).err # ""
        THEN [kind |-> "invalid", dialed |-> FALSE]
        ELSE [kind |-> d, dialed |-> TRUE]

\* ------------------------------------------------------------ checkHTTP
\* One GET as seen by checkHTTP: what http.NewRequest, client.Do and
\* io.ReadAll report, the response's status code, whether the body read
\* contains the keyword, and the peer certificate's whole hours to NotAfter.
PlainExchange ==
  [reqErr |-> FALSE, doFails |-> FALSE, doTimeout |-> FALSE,
   doCertificate |-> FALSE, readErr |-> FALSE, status |-> 200,
   bodyHasKeyword |-> TRUE, hasCert |-> FALSE, hours |-> 0]

StatusCodes == {199, 200, 299, 300, 404, 503}
CertHours == (0 - MaxCertHours)..MaxCertHours

Exchanges ==
  {[PlainExchange EXCEPT !.reqErr = TRUE]}
  \cup {[PlainExchange EXCEPT !.doFails = TRUE, !.doTimeout = t,
                              !.doCertificate = c] : t \in BOOLEAN, c \in BOOLEAN}
  \cup {[PlainExchange EXCEPT !.readErr = TRUE, !.status = s] : s \in StatusCodes}
  \cup {[PlainExchange EXCEPT !.status = s, !.bodyHasKeyword = b] :
          s \in StatusCodes, b \in BOOLEAN}
  \cup {[PlainExchange EXCEPT !.status = s, !.bodyHasKeyword = b,
                              !.hasCert = TRUE, !.hours = h] :
          s \in StatusCodes, b \in BOOLEAN, h \in CertHours}

Keywords == {"", "ok"}

\* The fields of the MonitorResult that a probe writes.
NoProbeFields ==
  [StatusCode |-> 0, KeywordMatched |-> FALSE, SSLCertExpiry |-> <<>>,
   Warning |-> <<>>]

\* int(expiry.Sub(time.Now()).Hours() / 24): the conversion of a float to
\* int drops the fraction, toward zero.
CertDays(h) == GoDiv(h, 24)

\* fmt.Sprintf of the three expiry texts, kept as text and number.
ExpiryText(days) ==
  IF days > 0 THEN <<"expires in", days, "days">>
  ELSE IF days = 0 THEN <<"expires today">>
  ELSE <<"expired", 0 - days, "days ago">>

\* The block guarded by resp.TLS != nil && len(PeerCertificates) > 0
CertInfo(r, h) ==
  LET days == CertDays(h) IN
    [r EXCEPT !.SSLCertExpiry = ExpiryText(days),
              !.Warning = IF days < 7
                            THEN <<"certificate about to expire, days left", days>>
                            ELSE @]

\* checkHTTP(url, keyword, result): the ErrorType returned ("" with a nil
\* error) and the result fields as the call leaves them.
checkHTTP(x, keyword, r) ==
  IF x.reqErr THEN [kind |-> "invalid", res |-> r]
  ELSE IF x.doFails THEN
    [kind |-> IF x.doTimeout THEN "timeout"
              ELSE IF x.doCertificate THEN "ssl" ELSE "network",
     res |-> r]
  ELSE IF x.readErr THEN [kind |-> "unknown", res |-> r]
  ELSE LET r1 == [r EXCEPT !.StatusCode = x.status] IN
    IF keyword # "" /\ ~x.bodyHasKeyword
      THEN [kind |-> "keyword", res |-> [r1 EXCEPT !.KeywordMatched = FALSE]]
      ELSE LET r2 == IF keyword # "" THEN [r1 EXCEPT !.KeywordMatched = TRUE]
                     ELSE r1
               r3 == IF x.hasCert THEN CertInfo(r2, x.hours) ELSE r2
           IN [kind |-> IF x.status < 200 \/ x.status >= 300 THEN "http" ELSE "",
               res |-> r3]

\* The endpoint behind HttpUrl answers 200, answers 503, or lets the request
\* time out.
HttpRemote ==
  {PlainExchange, [PlainExchange EXCEPT !.status = 503],
   [PlainExchange EXCEPT !.doFails = TRUE, !.doTimeout = TRUE]}
HttpOutcomes == {checkHTTP(x, "", NoProbeFields).kind : x \in HttpRemote}
\* The endpoint behind HttpsUrl is probed with a keyword and shows every way
\* an exchange can go once the request is built.
HttpsRemote == {x \in Exchanges : ~x.reqErr /\ x.hours = 0}
Keyword(u) == IF u = HttpsUrl THEN "ok" ELSE ""
Remote(u) == IF u = HttpsUrl THEN HttpsRemote ELSE HttpRemote

\* The probes one attempt on u can turn out to be: the dispatch of
\* CheckTarget and the probe's answer.
Probes(u) ==
  IF IsTcp(u) THEN {checkTCP(u, d) : d \in TcpOutcomes}
  ELSE {[kind |-> checkHTTP(x, Keyword(u), NoProbeFields).kind,
         dialed |-> FALSE] : x \in Remote(u)}
ProbeOutcomes(u) == {p.kind : p \in Probes(u)}

ErrorTextEmpty(kind) == ""

\* lastErr.Error(): a non-empty message, here the classified kind again
ErrorText(kind) == kind

\* Time is kept as durations: a result carries the time elapsed since its
\* CheckedAt stamp (time.Since(result.CheckedAt)), which Tick advances and
\* which stops one step above cacheTTL, where the entry is expired for good.
NoResult == [TargetURL |-> <<>>, SinceCheckedAt |-> 0, Status |-> "",
             ErrorType |-> "", ErrorMsg |-> ""]

\* &MonitorResult{TargetURL: target.URL, CheckedAt: time.Now(), ...}
NewResult(u) == [NoResult EXCEPT !.TargetURL = u]

RECURSIVE Pow2(_)
Pow2(i) == IF i = 0 THEN 1 ELSE 2 * Pow2(i - 1)

\* backoff[i] = base * (1 << i), in milliseconds
Backoff(i) == BaseMs * Pow2(i)

\* A time.Duration is an int64 count of nanoseconds: its two's-complement
\* bits, the least significant first.  Int64(n) is the value of a constant n
\* that fits 31 bits.
Int64(n) ==
  [k \in 1..DurationBits |-> IF k <= 31 THEN (n \div Pow2(k - 1)) % 2 ELSE 0]

\* x << n on an int64: the bits shifted out are lost, and a count of 64 or
\* more leaves 0.
Shl64(a, n) ==
  [k \in 1..DurationBits |-> IF k - n >= 1 THEN a[k - n] ELSE 0]

\* a + b on int64 wraps modulo 2^64: the bits from bit k up, with the carry
\* c into bit k; the carry out of the top bit is lost.
RECURSIVE AddFrom(_, _, _, _)
AddFrom(a, b, k, c) ==
  IF k > DurationBits THEN <<>>
  ELSE LET t == a[k] + b[k] + c IN
         <<t % 2>> \o AddFrom(a, b, k + 1, t \div 2)

Add64(a, b) == AddFrom(a, b, 1, 0)

\* a * b on int64 wraps modulo 2^64: the sum of a << (k - 1) over the bits
\* k set in b, from bit k up.
RECURSIVE MulFrom(_, _, _)
MulFrom(a, b, k) ==
  IF k > DurationBits THEN Int64(0)
  ELSE IF b[k] = 1 THEN Add64(Shl64(a, k - 1), MulFrom(a, b, k + 1))
  ELSE MulFrom(a, b, k + 1)

Mul64(a, b) == MulFrom(a, b, 1)

IsNegative64(a) == a[DurationBits] = 1
IsZero64(a) == \A k \in 1..DurationBits : a[k] = 0

\* a < b as signed 64-bit integers
Less64(a, b) ==
  LET differ == {k \in 1..DurationBits : a[k] # b[k]} IN
    /\ differ # {}
    /\ LET top == CHOOSE k \in differ : \A j \in differ : j <= k IN
         IF top = DurationBits THEN a[top] = 1 ELSE b[top] = 1

\* base * (1 << i) with base := 100 * time.Millisecond
Backoff64(i) == Mul64(Int64(BaseNs), Shl64(Int64(1), i))

ExpiredInclusive(since) == since >= cacheTTL

\* time.Since(result.CheckedAt) > sc.cacheTTL
Expired(since) == since > cacheTTL

CacheHitAnyAge(u) == u \in DOMAIN cache

\* GetCachedResult(targetURL) reports (result, true)
CacheHit(u) == u \in DOMAIN cache /\ ~Expired(cache[u].SinceCheckedAt)

CacheStoreIfAbsent(c, u, r) ==
  [x \in DOMAIN c \cup {u} |-> IF x \in DOMAIN c THEN c[x] ELSE r]

\* resultCache[result.TargetURL] = result
CacheStore(c, u, r) ==
  [x \in DOMAIN c \cup {u} |-> IF x = u THEN r ELSE c[x]]

SweepEntryAlways(c, u) == [x \in DOMAIN c \ {u} |-> c[x]]

\* if time.Since(result.CheckedAt) > sc.cacheTTL { delete(resultCache, url) }
SweepEntry(c, u) ==
  IF Expired(c[u].SinceCheckedAt) THEN [x \in DOMAIN c \ {u} |-> c[x]]
  ELSE c

StopsRetryingNever(o) == FALSE

\* if lastErr == nil { ...; break }: a probe returns a nil error with the
\* empty ErrorType and a non-nil error with a kind.
StopsRetrying(o) == o = ""

IsLastRetryOffByOne(r) == r = maxRetry

\* retry == sc.cfg.MaxRetry-1
IsLastRetry(r) == r = maxRetry - 1

\* ------------------------------------------------------------------ Init
\* NewConcurrencyLimiter(max)
NewConcurrencyLimiter(max) ==
  /\ semCap = max
  /\ semLen = 0
  /\ semClosed = FALSE
  /\ pq = <<>>
  /\ mu = Unlocked
  /\ closed = FALSE
  /\ pc = [c \in Callers |-> "idle"]
  /\ prio = [c \in Callers |-> PriorityNormal]
  /\ depth = [c \in Callers |-> 0]
  /\ wokenBy = [c \in Callers |-> "none"]
  /\ closerPc = "idle"
  /\ closeCalls = 0

\* NewServiceChecker(cfg) over an empty resultCache
NewServiceChecker(k, ttl) ==
  /\ maxRetry = k
  /\ cacheTTL = ttl
  /\ cache = <<>>
  /\ cacheMu = "free"
  /\ sweepTodo = {}
  /\ swept = {}
  /\ cpc = [g \in Callers |-> "idle"]
  /\ curl = [g \in Callers |-> <<>>]
  /\ retry = [g \in Callers |-> 0]
  /\ result = [g \in Callers |-> NoResult]
  /\ sleepLeft = [g \in Callers |-> 0]
  /\ sleeps = [g \in Callers |-> <<>>]
  /\ nProbes = [g \in Callers |-> 0]
  /\ nFailed = [g \in Callers |-> 0]
  /\ errType = [g \in Callers |-> ""]
  /\ nDials = [g \in Callers |-> 0]
  /\ ret = [g \in Callers |-> NoResult]

NoExchange == [x |-> PlainExchange, keyword |-> ""]
NoOutcome == [kind |-> "pending", res |-> NoProbeFields]

\* No probe is being looked at on its own.
NoProbe ==
  /\ hx = NoExchange /\ hres = NoOutcome /\ hretry = 0
  /\ backoff = <<>> /\ bi = 0

\* No SubmitTargets request is running.
NoRequest ==
  wg = 0 /\ wdone = [i \in Callers |-> FALSE] /\ hpc = "none"

\* The limiter of every capacity, beside a checker nobody calls.
Init ==
  /\ \E max \in 1..MaxCap : NewConcurrencyLimiter(max)
  /\ NewServiceChecker(0, BaseMs)
  /\ targets = {}
  /\ NoProbe
  /\ NoRequest

\* The checker of every configuration, beside a limiter nobody calls.
CheckerInit ==
  /\ NewConcurrencyLimiter(1)
  /\ \E k \in 0..MaxRetryBound : \E t \in 1..MaxTTLTicks :
       NewServiceChecker(k, t * BaseMs)
  /\ targets = {TcpUrl, HttpUrl}
  /\ NoProbe
  /\ NoRequest

\* The checker of every configuration with one target, whatever its URL.
TargetInit ==
  /\ NewConcurrencyLimiter(1)
  /\ \E k \in 0..MaxRetryBound : \E t \in 1..MaxTTLTicks :
       NewServiceChecker(k, t * BaseMs)
  /\ \E u \in Urls : targets = {u}
  /\ NoProbe
  /\ NoRequest

\* One SubmitTargets request with NumCallers targets: a limiter of its own
\* with the configured capacity and wg.Add(len(req.Targets)) done, beside
\* the checker.  The targets name an
\* address on which every attempt fails, so that each call that misses the
\* cache goes through all its attempts and its backoff sleep.
HandlerInit ==
  /\ \E max \in 1..MaxCap : NewConcurrencyLimiter(max)
  /\ NewServiceChecker(2, BaseMs)
  /\ targets = {TcpBadPortUrl}
  /\ NoProbe
  /\ wg = NumCallers
  /\ wdone = [i \in Callers |-> FALSE]
  /\ hpc = "loop"

\* One HTTP probe on its own: every exchange and keyword of the sample.
HttpProbeInit ==
  /\ NewConcurrencyLimiter(1)
  /\ NewServiceChecker(0, BaseMs)
  /\ targets = {}
  /\ hx \in [x : Exchanges, keyword : Keywords]
  /\ hres = NoOutcome
  /\ hretry = 0
  /\ backoff = <<>> /\ bi = 0
  /\ NoRequest

\* ------------------------------------------------- AcquireWithPriority
\* A caller builds a task and calls AcquireWithPriority(task).
AcquireWithPriority(c, p) ==
  /\ pc[c] = "idle"
  /\ pc' = [pc EXCEPT ![c] = "lock"]
  /\ prio' = [prio EXCEPT ![c] = p]
  /\ UNCHANGED <<semCap, semLen, semClosed, pq, mu, closed, depth, wokenBy,
                 closerPc, closeCalls>>
  /\ UNCHANGED <<chkVars, prbVars, hdlVars>>

\* Acquire(): the wrapper with the default priority.
Acquire(c) == AcquireWithPriority(c, PriorityNormal)

\* for len(cl.sem) == cap(cl.sem) { cl.cond.Wait() }, evaluated by the
\* goroutine that owns the mutex: Wait parks it and unlocks the mutex.
LoopCheck(c, pcNow, wokenNow) ==
  /\ IF semLen = semCap
       THEN /\ pc' = [pcNow EXCEPT ![c] = "parked"]
            /\ mu' = Unlocked
       ELSE /\ pc' = [pcNow EXCEPT ![c] = "pop"]
            /\ mu' = c
  /\ wokenBy' = wokenNow

\* cl.mu.Lock(); if cl.closed { panic }; heap.Push(&cl.pq, task);
\* cl.cond.Signal(); first evaluation of the wait loop.  The mutex is not
\* reentrant: the recursive call of a frame that owns it blocks at Lock.
AcquireEnter(c) ==
  /\ pc[c] = "lock"
  /\ mu = Unlocked
  /\ IF closed
       THEN /\ pc' = [pc EXCEPT ![c] = "panicked"]
            /\ mu' = Unlocked
            /\ UNCHANGED <<pq, wokenBy>>
       ELSE /\ pq' = HeapPush(pq, c)
            /\ \E ws \in Signal :
                 LoopCheck(c,
                   [d \in Callers |-> IF d \in ws THEN "woken" ELSE pc[d]],
                   [d \in Callers |-> IF d \in ws THEN "acquire" ELSE wokenBy[d]])
  /\ UNCHANGED <<semCap, semLen, semClosed, closed, prio, depth, closerPc,
                 closeCalls>>
  /\ UNCHANGED <<chkVars, prbVars, hdlVars>>

\* A woken goroutine relocks the mutex before Wait returns, and evaluates
\* the loop condition again.
AcquireWake(c) ==
  /\ pc[c] = "woken"
  /\ mu = Unlocked
  /\ LoopCheck(c, pc, [wokenBy EXCEPT ![c] = "none"])
  /\ UNCHANGED <<semCap, semLen, semClosed, pq, closed, prio, depth, closerPc,
                 closeCalls>>
  /\ UNCHANGED <<chkVars, prbVars, hdlVars>>

\* execTask := heap.Pop(&cl.pq); cl.sem <- struct{}{}; then
\* if execTask != task { heap.Push(&cl.pq, execTask); cl.AcquireWithPriority(task) }.
\* heap.Pop of an empty heap indexes the slice out of range and a send on a
\* closed channel panics (the deferred Unlock runs); a send on a full open
\* channel blocks.
AcquirePopSend(c) ==
  /\ pc[c] = "pop"
  /\ IF Len(pq) = 0
       THEN /\ pc' = [pc EXCEPT ![c] = "panicked"]
            /\ mu' = Unlocked
            /\ UNCHANGED <<pq, semLen, depth>>
       ELSE IF semClosed
       THEN /\ pq' = HeapPopRest(pq)
            /\ pc' = [pc EXCEPT ![c] = "panicked"]
            /\ mu' = Unlocked
            /\ UNCHANGED <<semLen, depth>>
       ELSE /\ semLen < semCap
            /\ semLen' = SemSend(semLen)
            /\ mu' = mu
            /\ IF HeapPopTask(pq) = c
                 THEN /\ pq' = HeapPopRest(pq)
                      /\ pc' = [pc EXCEPT ![c] = "return"]
                      /\ UNCHANGED depth
                 ELSE /\ pq' = HeapPush(HeapPopRest(pq), HeapPopTask(pq))
                      /\ depth' = [depth EXCEPT ![c] = @ + 1]
                      /\ pc' = [pc EXCEPT ![c] = "lock"]
  /\ UNCHANGED <<semCap, semClosed, closed, prio, wokenBy, closerPc,
                 closeCalls>>
  /\ UNCHANGED <<chkVars, prbVars, hdlVars>>

\* The frame returns and its deferred cl.mu.Unlock() runs.  An inner frame
\* returns into its caller, whose own deferred Unlock then finds the mutex
\* unlocked (a fatal runtime error).
AcquireReturn(c) ==
  /\ pc[c] = "return"
  /\ IF mu # c
       THEN /\ pc' = [pc EXCEPT ![c] = "panicked"]
            /\ UNCHANGED <<mu, depth>>
       ELSE /\ mu' = Unlocked
            /\ IF depth[c] > 0
                 THEN /\ depth' = [depth EXCEPT ![c] = @ - 1]
                      /\ UNCHANGED pc
                 ELSE /\ pc' = [pc EXCEPT ![c] = "holding"]
                      /\ UNCHANGED depth
  /\ UNCHANGED <<semCap, semLen, semClosed, pq, closed, prio, wokenBy,
                 closerPc, closeCalls>>
  /\ UNCHANGED <<chkVars, prbVars, hdlVars>>

\* ------------------------------------------------------------- Release
\* A caller that returned from Acquire calls Release: <-cl.sem.  A receive
\* takes a buffered token; on a closed and empty channel it returns at once;
\* on an open and empty one it blocks.
ReleaseReceive(c) ==
  /\ pc[c] = "holding"
  /\ \/ /\ semLen > 0
        /\ semLen' = semLen - 1
     \/ /\ semLen = 0
        /\ semClosed
        /\ semLen' = semLen
  /\ pc' = [pc EXCEPT ![c] = "rel_lock"]
  /\ UNCHANGED <<semCap, semClosed, pq, mu, closed, prio, depth, wokenBy,
                 closerPc, closeCalls>>
  /\ UNCHANGED <<chkVars, prbVars, hdlVars>>

ReleaseWakeAll == Broadcast

\* the goroutines a Release wakes: cl.cond.Signal()
ReleaseWake == Signal

\* cl.mu.Lock(); cl.cond.Signal(); the deferred Unlock.  The task of the
\* caller is garbage from here on; its priority is reset with it.
ReleaseSignal(c) ==
  /\ pc[c] = "rel_lock"
  /\ mu = Unlocked
  /\ \E ws \in ReleaseWake :
       /\ pc' = [d \in Callers |->
                   IF d = c THEN "done"
                   ELSE IF d \in ws THEN "woken" ELSE pc[d]]
       /\ wokenBy' = [d \in Callers |->
                        IF d \in ws THEN "release" ELSE wokenBy[d]]
  /\ mu' = Unlocked
  /\ prio' = [prio EXCEPT ![c] = PriorityNormal]
  /\ UNCHANGED <<semCap, semLen, semClosed, pq, closed, depth, closerPc,
                 closeCalls>>
  /\ UNCHANGED <<chkVars, prbVars, hdlVars>>

\* --------------------------------------------------------------- Close
\* cl.mu.Lock(); cl.closed = true; close(cl.sem); cl.cond.Broadcast();
\* deferred Unlock.  close of a closed channel panics, after cl.closed was
\* set and before the Broadcast.
Close ==
  /\ closerPc = "idle"
  /\ mu = Unlocked
  /\ closed' = TRUE
  /\ IF semClosed
       THEN /\ closerPc' = "panicked"
            /\ UNCHANGED <<semClosed, pc, wokenBy>>
       ELSE /\ semClosed' = TRUE
            /\ closerPc' = "idle"
            /\ \E ws \in Broadcast :
                 /\ pc' = [d \in Callers |-> IF d \in ws THEN "woken" ELSE pc[d]]
                 /\ wokenBy' = [d \in Callers |->
                                  IF d \in ws THEN "close" ELSE wokenBy[d]]
  /\ mu' = Unlocked
  /\ closeCalls' = closeCalls + 1
  /\ UNCHANGED <<semCap, semLen, pq, prio, depth>>
  /\ UNCHANGED <<chkVars, prbVars, hdlVars>>

\* The caller comes back for another slot (the submit loop calls Acquire
\* once per target).
Again(c) ==
  /\ pc[c] = "done"
  /\ pc' = [pc EXCEPT ![c] = "idle"]
  /\ UNCHANGED <<semCap, semLen, semClosed, pq, mu, closed, prio, depth,
                 wokenBy, closerPc, closeCalls>>
  /\ UNCHANGED <<chkVars, prbVars, hdlVars>>

\* ---------------------------------------------------------------- Next
Next ==
  \/ \E c \in Callers : \E p \in Priorities : AcquireWithPriority(c, p)
  \/ \E c \in Callers : Acquire(c)
  \/ \E c \in Callers : AcquireEnter(c)
  \/ \E c \in Callers : AcquireWake(c)
  \/ \E c \in Callers : AcquirePopSend(c)
  \/ \E c \in Callers : AcquireReturn(c)
  \/ \E c \in Callers : ReleaseReceive(c)
  \/ \E c \in Callers : ReleaseSignal(c)
  \/ \E c \in Callers : Again(c)
  \/ Close

Spec == Init /\ [][Next]_vars

\* Finitely many Acquire calls (one per caller), under the scheduling the Go
\* runtime gives: a runnable goroutine eventually runs, a goroutine blocked in
\* Lock gets the mutex if it is unlocked again and again (sync.Mutex hands
\* the lock over in starvation mode), and a caller that returned from Acquire
\* calls Release.  Nothing forces a caller to start an Acquire or anyone to
\* call Close.
OnceNext ==
  \/ \E c \in Callers : \E p \in Priorities : AcquireWithPriority(c, p)
  \/ \E c \in Callers : AcquireEnter(c)
  \/ \E c \in Callers : AcquireWake(c)
  \/ \E c \in Callers : AcquirePopSend(c)
  \/ \E c \in Callers : AcquireReturn(c)
  \/ \E c \in Callers : ReleaseReceive(c)
  \/ \E c \in Callers : ReleaseSignal(c)
  \/ Close

Fairness ==
  \A c \in Callers :
    /\ SF_vars(AcquireEnter(c))
    /\ SF_vars(AcquireWake(c))
    /\ WF_vars(AcquirePopSend(c))
    /\ WF_vars(AcquireReturn(c))
    /\ WF_vars(ReleaseReceive(c))
    /\ SF_vars(ReleaseSignal(c))

FairSpec == Init /\ [][OnceNext]_vars /\ Fairness

\* ---------------------------------------------------------- CheckTarget
\* The call: the cache lookup under cacheMu.RLock (if cachedResult, ok :=
\* GetCachedResult(url); ok { return cachedResult }) and, on a miss,
\* result := &MonitorResult{...CheckedAt: time.Now()...}, the backoff table,
\* retry := 0 and the first test of retry < sc.cfg.MaxRetry.
CheckTarget(g, u) ==
  /\ cpc[g] = "idle"
  /\ u \in targets
  /\ cacheMu = "free"
  /\ curl' = [curl EXCEPT ![g] = u]
  /\ IF CacheHit(u)
       THEN /\ ret' = [ret EXCEPT ![g] = cache[u]]
            /\ cpc' = [cpc EXCEPT ![g] = "hit"]
            /\ UNCHANGED result
       ELSE /\ result' = [result EXCEPT ![g] = NewResult(u)]
            /\ cpc' = [cpc EXCEPT ![g] = IF 0 < maxRetry THEN "attempt" ELSE "update"]
            /\ UNCHANGED ret
  /\ UNCHANGED <<maxRetry, cacheTTL, targets, cache, cacheMu, sweepTodo, swept, retry,
                 sleepLeft, sleeps, nProbes, nFailed, errType, nDials>>
  /\ UNCHANGED <<limVars, prbVars, hdlVars>>

\* One pass of the retry loop: the probe (checkTCP or checkHTTP) and what the
\* loop does with its outcome.
Attempt(g) ==
  /\ cpc[g] = "attempt"
  /\ \E p \in Probes(curl[g]) : LET o == p.kind IN
       /\ errType' = [errType EXCEPT ![g] = o]
       /\ nDials' = [nDials EXCEPT ![g] = IF p.dialed THEN @ + 1 ELSE @]
       /\ nProbes' = [nProbes EXCEPT ![g] = @ + 1]
       /\ nFailed' = [nFailed EXCEPT ![g] = IF o = "" THEN @ ELSE @ + 1]
       /\ IF StopsRetrying(o)
            THEN /\ result' = [result EXCEPT ![g].Status = "success",
                                             ![g].ErrorMsg = "",
                                             ![g].ErrorType = ""]
                 /\ cpc' = [cpc EXCEPT ![g] = "update"]
                 /\ UNCHANGED <<retry, sleepLeft, sleeps>>
            ELSE IF IsLastRetry(retry[g])
            THEN /\ result' = [result EXCEPT ![g].Status = "failed",
                                             ![g].ErrorMsg = ErrorText(o),
                                             ![g].ErrorType = o]
                 /\ retry' = [retry EXCEPT ![g] = @ + 1]
                 /\ cpc' = [cpc EXCEPT ![g] = "update"]
                 /\ UNCHANGED <<sleepLeft, sleeps>>
            ELSE /\ sleepLeft' = [sleepLeft EXCEPT ![g] = Backoff(retry[g])]
                 /\ sleeps' = [sleeps EXCEPT ![g] = Append(@, Backoff(retry[g]))]
                 /\ cpc' = [cpc EXCEPT ![g] = "sleep"]
                 /\ UNCHANGED <<result, retry>>
  /\ UNCHANGED <<maxRetry, cacheTTL, targets, cache, cacheMu, sweepTodo, swept, curl, ret>>
  /\ UNCHANGED <<limVars, prbVars, hdlVars>>

\* time.Sleep(backoff[retry]) returns no earlier than its duration; then
\* retry++ and the loop test.
WakeUp(g) ==
  /\ cpc[g] = "sleep"
  /\ sleepLeft[g] = 0
  /\ retry' = [retry EXCEPT ![g] = @ + 1]
  /\ cpc' = [cpc EXCEPT ![g] = IF retry[g] + 1 < maxRetry THEN "attempt" ELSE "update"]
  /\ UNCHANGED <<maxRetry, cacheTTL, targets, cache, cacheMu, sweepTodo, swept, curl,
                 result, sleepLeft, sleeps, nProbes, nFailed, errType, nDials, ret>>
  /\ UNCHANGED <<limVars, prbVars, hdlVars>>

\* sc.updateCache(result) under cacheMu.Lock, and return result.
UpdateCache(g) ==
  /\ cpc[g] = "update"
  /\ cacheMu = "free"
  /\ cache' = CacheStore(cache, curl[g], result[g])
  /\ ret' = [ret EXCEPT ![g] = result[g]]
  /\ cpc' = [cpc EXCEPT ![g] = "returned"]
  /\ UNCHANGED <<maxRetry, cacheTTL, targets, cacheMu, sweepTodo, swept, curl, retry,
                 result, sleepLeft, sleeps, nProbes, nFailed, errType, nDials>>
  /\ UNCHANGED <<limVars, prbVars, hdlVars>>

\* The caller is done with the result; the goroutine can serve another call.
Finish(g) ==
  /\ cpc[g] \in {"hit", "returned"}
  /\ cpc' = [cpc EXCEPT ![g] = "idle"]
  /\ curl' = [curl EXCEPT ![g] = <<>>]
  /\ retry' = [retry EXCEPT ![g] = 0]
  /\ result' = [result EXCEPT ![g] = NoResult]
  /\ sleepLeft' = [sleepLeft EXCEPT ![g] = 0]
  /\ sleeps' = [sleeps EXCEPT ![g] = <<>>]
  /\ nProbes' = [nProbes EXCEPT ![g] = 0]
  /\ nFailed' = [nFailed EXCEPT ![g] = 0]
  /\ errType' = [errType EXCEPT ![g] = ""]
  /\ nDials' = [nDials EXCEPT ![g] = 0]
  /\ ret' = [ret EXCEPT ![g] = NoResult]
  /\ UNCHANGED <<maxRetry, cacheTTL, targets, cache, cacheMu, sweepTodo, swept>>
  /\ UNCHANGED <<limVars, prbVars, hdlVars>>

\* ---------------------------------------------------- CleanExpiredCache
\* cacheMu.Lock(); the range loop is about to visit the entries present.
SweepStart ==
  /\ cacheMu = "free"
  /\ cacheMu' = "sweep"
  /\ sweepTodo' = DOMAIN cache
  /\ swept' = {}
  /\ UNCHANGED <<maxRetry, cacheTTL, targets, cache, cpc, curl, retry, result,
                 sleepLeft, sleeps, nProbes, nFailed, errType, nDials, ret>>
  /\ UNCHANGED <<limVars, prbVars, hdlVars>>

\* One iteration, in the map's arbitrary order:
\* if time.Since(result.CheckedAt) > sc.cacheTTL { delete(resultCache, url) }
SweepVisit(u) ==
  /\ cacheMu = "sweep"
  /\ u \in sweepTodo
  /\ sweepTodo' = sweepTodo \ {u}
  /\ cache' = SweepEntry(cache, u)
  /\ swept' = IF u \in DOMAIN SweepEntry(cache, u) THEN swept
              ELSE swept \cup {u}
  /\ UNCHANGED <<maxRetry, cacheTTL, targets, cacheMu, cpc, curl, retry, result,
                 sleepLeft, sleeps, nProbes, nFailed, errType, nDials, ret>>
  /\ UNCHANGED <<limVars, prbVars, hdlVars>>

\* The loop is over; the deferred cacheMu.Unlock().
SweepEnd ==
  /\ cacheMu = "sweep"
  /\ sweepTodo = {}
  /\ cacheMu' = "free"
  /\ swept' = {}
  /\ UNCHANGED <<maxRetry, cacheTTL, targets, cache, sweepTodo, cpc, curl, retry,
                 result, sleepLeft, sleeps, nProbes, nFailed, errType, nDials, ret>>
  /\ UNCHANGED <<limVars, prbVars, hdlVars>>

\* Time passes, one base interval at a time: every result is that much
\* older and every sleeper that much nearer to waking.
Older(r) ==
  IF r.TargetURL = <<>> \/ Expired(r.SinceCheckedAt) THEN r
  ELSE [r EXCEPT !.SinceCheckedAt = @ + BaseMs]

Tick ==
  /\ cache' = [x \in DOMAIN cache |-> Older(cache[x])]
  /\ result' = [g \in Callers |-> Older(result[g])]
  /\ ret' = [g \in Callers |-> Older(ret[g])]
  /\ sleepLeft' = [g \in Callers |->
                     IF sleepLeft[g] >= BaseMs THEN sleepLeft[g] - BaseMs ELSE 0]
  /\ UNCHANGED <<maxRetry, cacheTTL, targets, cacheMu, sweepTodo, swept, cpc, curl, retry,
                 sleeps, nProbes, nFailed, errType, nDials>>
  /\ UNCHANGED <<limVars, prbVars, hdlVars>>

\* ------------------------------------------------------ one HTTP probe
\* checkHTTP runs on a fresh result.
ProbeHTTP ==
  /\ hres = NoOutcome
  /\ hres' = checkHTTP(hx.x, hx.keyword, NoProbeFields)
  /\ UNCHANGED <<hx, hretry, backoff, bi, limVars, chkVars, hdlVars>>

HttpProbeSpec == HttpProbeInit /\ [][ProbeHTTP]_vars

\* ------------------------------------- the probe fields over the attempts
\* What the endpoint of an HTTP target may answer from one attempt to the
\* next: the request itself is the same each time and is well formed.
RetryExchanges ==
  {x \in Exchanges : /\ ~x.reqErr
                     /\ x.status \in {200, 503}
                     /\ x.hours \in {0, MaxCertHours}}

\* CheckTarget on an HTTP target that misses the cache, for every MaxRetry
\* and keyword: result := &MonitorResult{...} with its probe fields zero.
RetryHTTPInit ==
  /\ NewConcurrencyLimiter(1)
  /\ \E k \in 0..MaxRetryBound : NewServiceChecker(k, BaseMs)
  /\ targets = {}
  /\ \E kw \in Keywords : hx = [x |-> PlainExchange, keyword |-> kw]
  /\ hres = NoOutcome
  /\ hretry = 0
  /\ backoff = <<>> /\ bi = 0
  /\ NoRequest

\* One pass of the retry loop: checkHTTP(target.URL, target.Keyword, result)
\* on the one result the call has made, then break on success, stop after
\* the last retry, or sleep and retry++.
AttemptHTTP ==
  /\ hretry < maxRetry
  /\ ~StopsRetrying(hres.kind)
  /\ \E x \in RetryExchanges :
       /\ hx' = [hx EXCEPT !.x = x]
       /\ hres' = checkHTTP(x, hx.keyword, hres.res)
  /\ hretry' = hretry + 1
  /\ UNCHANGED <<backoff, bi, limVars, chkVars, hdlVars>>

RetryHTTPSpec == RetryHTTPInit /\ [][AttemptHTTP]_vars

\* ------------------------------------------------- the backoff intervals
\* CheckTarget on its way to the retry loop, for every MaxRetry of the
\* configuration up to the bound: backoff := make([]time.Duration, MaxRetry).
BackoffInit ==
  /\ NewConcurrencyLimiter(1)
  /\ \E k \in 0..MaxBackoffRetry : NewServiceChecker(k, BaseMs)
  /\ targets = {}
  /\ hx = NoExchange /\ hres = NoOutcome /\ hretry = 0
  /\ backoff = [k \in 1..maxRetry |-> Int64(0)]
  /\ bi = 0
  /\ NoRequest

\* One pass of for i := 0; i < sc.cfg.MaxRetry; i++ { backoff[i] = ... }
FillBackoff ==
  /\ bi < maxRetry
  /\ backoff' = [backoff EXCEPT ![bi + 1] = Backoff64(bi)]
  /\ bi' = bi + 1
  /\ UNCHANGED <<hx, hres, hretry, limVars, chkVars, hdlVars>>

BackoffSpec == BackoffInit /\ [][FillBackoff]_vars

\* ------------------------------------------------------- SubmitTargets
\* Target i of the request is task i of the limiter and call i of the
\* checker.  Admitted(i): limiter.Acquire() has returned for target i and
\* its goroutine was started.
Admitted(i) == pc[i] \in {"holding", "rel_lock", "done"}

\* The loop over req.Targets calls limiter.Acquire() for one target after
\* the other.
SubmitAcquire(i) ==
  /\ \A j \in Callers : j < i => Admitted(j)
  /\ \/ Acquire(i)
     \/ AcquireEnter(i)
     \/ AcquireWake(i)
     \/ AcquirePopSend(i)
     \/ AcquireReturn(i)

\* The goroutine of target i: h.checker.CheckTarget(target)
WorkerCheck(i) ==
  /\ pc[i] = "holding"
  /\ \/ \E u \in Urls : CheckTarget(i, u)
     \/ Attempt(i)
     \/ WakeUp(i)
     \/ UpdateCache(i)

WorkerReturnsEarly(i) == TRUE

\* CheckTarget has returned to the goroutine of target i; SaveTarget and
\* SaveResult come next and are taken to return.
WorkerReturns(i) == cpc[i] \in {"hit", "returned"}

\* The goroutine's function returns and its deferred calls run, the last
\* deferred first: wg.Done(), deferred second, runs before limiter.Release().
WorkerDone(i) ==
  /\ pc[i] = "holding"
  /\ WorkerReturns(i)
  /\ ~wdone[i]
  /\ wdone' = [wdone EXCEPT ![i] = TRUE]
  /\ wg' = wg - 1
  /\ UNCHANGED <<hpc, limVars, chkVars, prbVars>>

\* The deferred limiter.Release(), deferred first, runs after wg.Done().
WorkerRelease(i) ==
  \/ wdone[i] /\ ReleaseReceive(i)
  \/ ReleaseSignal(i)

\* The loop over req.Targets has launched every goroutine, wg.Wait()
\* returns once the counter is 0, and c.JSON answers the request.
SubmitRespond ==
  /\ hpc = "loop"
  /\ \A i \in Callers : Admitted(i)
  /\ wg = 0
  /\ hpc' = "responded"
  /\ UNCHANGED <<wg, wdone, limVars, chkVars, prbVars>>

HandlerNext ==
  \/ \E i \in Callers : SubmitAcquire(i)
  \/ \E i \in Callers : WorkerCheck(i)
  \/ \E i \in Callers : WorkerDone(i)
  \/ \E i \in Callers : WorkerRelease(i)
  \/ SubmitRespond
  \/ Tick

HandlerSpec == HandlerInit /\ [][HandlerNext]_vars

\* The goroutines of the request are scheduled, and time passes.
HandlerFairness ==
  /\ \A i \in Callers :
       /\ WF_vars(SubmitAcquire(i))
       /\ WF_vars(WorkerCheck(i))
       /\ WF_vars(WorkerDone(i))
       /\ WF_vars(WorkerRelease(i))
  /\ WF_vars(SubmitRespond)
  /\ WF_vars(Tick)

HandlerFairSpec == HandlerSpec /\ HandlerFairness

CheckerNext ==
  \/ \E g \in Checkers : \E u \in Urls : CheckTarget(g, u)
  \/ \E g \in Checkers : Attempt(g)
  \/ \E g \in Checkers : WakeUp(g)
  \/ \E g \in Checkers : UpdateCache(g)
  \/ \E g \in Checkers : Finish(g)
  \/ SweepStart
  \/ \E u \in Urls : SweepVisit(u)
  \/ SweepEnd
  \/ Tick

CheckerSpec == CheckerInit /\ [][CheckerNext]_vars

\* The goroutine that sweeps owns cacheMu and keeps running: its loop over
\* the entries and its return are not postponed forever.
SweepFairness ==
  /\ \A u \in Urls : WF_vars(SweepVisit(u))
  /\ WF_vars(SweepEnd)
CheckerFairSpec == CheckerSpec /\ SweepFairness
TargetSpec == TargetInit /\ [][CheckerNext]_vars

\* ------------------------------------------------------------ the claims
Holders == {c \in Callers : pc[c] = "holding"}

\* C1: the number of callers that have returned from Acquire and have not yet
\* called Release never exceeds the capacity of the limiter.
C1_HoldersWithinCapacity == Cardinality(Holders) <= semCap

\* C1 witness: every slot is held and a further caller is parked waiting.
C1_Witness == Cardinality(Holders) = semCap /\ Parked # {}

\* C2: a caller whose AcquireWithPriority is about to return (its own task was
\* the one popped) has a priority >= that of every task left in the heap and
\* >= that of every caller still blocked in the wait loop; so a blocked
\* low-priority caller never returns while a higher-priority one is blocked.
C2_GrantedHasMaxPriority ==
  \A c \in Callers :
    pc[c] = "return" =>
      /\ \A i \in 1..Len(pq) : prio[c] >= prio[pq[i]]
      /\ \A w \in Callers : pc[w] \in {"parked", "woken"} => prio[c] >= prio[w]

\* C2 witness: a slot was granted while a lower-priority task is still waiting.
C2_Witness ==
  \E c \in Callers : \E w \in Callers :
    /\ pc[c] = "return"
    /\ pc[w] = "parked"
    /\ Len(pq) >= 1
    /\ prio[w] < prio[c]

\* C3 (as claimed): on an open limiter with finitely many callers that all
\* release, every AcquireWithPriority call eventually returns.
C3_EveryAcquireReturns ==
  \A c \in Callers : (pc[c] = "lock" /\ ~closed) ~> (pc[c] = "holding" \/ closed)

\* C4 (as claimed): no AcquireWithPriority call ends in a panic; a call on a
\* closed controller ends with an explicit failure outcome.
C4_ClosedIsReportedNotPanicked == \A c \in Callers : pc[c] # "panicked"

\* C5 (as claimed): a Release issued by a caller that holds a slot always
\* completes, in the Open and in the Closed state.
C5_ReleaseCompletes ==
  \A c \in Callers : (pc[c] = "rel_lock") ~> (pc[c] = "done")

\* C6: a Release takes exactly one token out of the channel and wakes at most
\* one parked waiter; it changes neither the heap nor the closed flag.
C6_ReleaseFrame ==
  [][\A c \in Callers :
       /\ (pc[c] = "holding" /\ pc'[c] = "rel_lock") =>
            /\ semLen' = semLen - 1
            /\ Parked' = Parked
            /\ pq' = pq /\ closed' = closed /\ semClosed' = semClosed
       /\ (pc[c] = "rel_lock" /\ pc'[c] = "done") =>
            /\ semLen' = semLen
            /\ Parked' \subseteq Parked
            /\ Cardinality(Parked \ Parked') <= 1
            /\ pq' = pq /\ closed' = closed /\ semClosed' = semClosed]_vars

\* C6 witness: a Release has woken one waiter while another stays parked.
C6_Witness ==
  \E w \in Callers : \E v \in Callers :
    /\ pc[w] = "woken" /\ wokenBy[w] = "release"
    /\ pc[v] = "parked"

\* C7 (as claimed): once Close has been called the controller stays Closed,
\* and a Close call made in the Closed state completes without failure.
C7_ClosedTerminalCloseCompletes ==
  /\ closeCalls > 0 => closed
  /\ closerPc # "panicked"

\* C8: a CheckTarget call that finds an entry for its URL with
\* now - checkedAt <= cacheTTL returns that entry as it is, makes no probe
\* attempt, does not sleep and leaves the cache unchanged.
C8_FreshEntryIsReturnedUntouched ==
  [][\A g \in Checkers :
       /\ (/\ cpc[g] = "idle" /\ cpc'[g] # "idle"
           /\ curl'[g] \in DOMAIN cache
           /\ cache[curl'[g]].SinceCheckedAt <= cacheTTL)
            => /\ cpc'[g] = "hit"
               /\ ret'[g] = cache[curl'[g]]
               /\ cache' = cache
               /\ nProbes'[g] = 0 /\ sleeps'[g] = <<>> /\ sleepLeft'[g] = 0
       /\ cpc[g] = "hit" =>
            /\ nProbes[g] = 0 /\ sleeps[g] = <<>> /\ sleepLeft[g] = 0
            /\ cpc'[g] \in {"hit", "idle"}]_vars

\* C8 witness: a call was served an entry whose age is exactly cacheTTL.
C8_Witness ==
  \E g \in Checkers :
    /\ cpc[g] = "hit"
    /\ ret[g].SinceCheckedAt = cacheTTL
    /\ ret[g] = cache[curl[g]]

\* C9 (as claimed, for a second call that starts the moment the first one
\* returns, hence within cacheTTL of it): the second call is served from the
\* cache and makes no probe, whatever retries and sleeps the first call's
\* probe needed; and a call that finds the entry older than cacheTTL is not served
\* from the cache.
C9_CallRightAfterReturnIsServedFromCache ==
  [][\A g \in Checkers :
       /\ (cpc[g] = "update" /\ cpc'[g] = "returned" /\ nProbes[g] >= 1)
            => CacheHit(curl[g])'
       /\ (/\ cpc[g] = "idle" /\ cpc'[g] # "idle"
           /\ curl'[g] \in DOMAIN cache
           /\ cache[curl'[g]].SinceCheckedAt > cacheTTL) => cpc'[g] # "hit"]_vars

ExpectedSleeps(n) == [i \in 1..n |-> BaseMs * 2 ^ (i - 1)]

\* C10: while every probe attempt of an uncached call fails, attempt number r
\* (from 0) is preceded by exactly r sleeps of 100ms * 2^i, i = 0..r-1; the
\* call sleeps only after an attempt that is not the last; and with
\* maxRetry = k >= 1 it ends after exactly k attempts and k-1 sleeps with
\* status failed.
C10_AlwaysFailingProbe ==
  \A g \in Checkers :
    nFailed[g] = nProbes[g] =>
      /\ cpc[g] = "attempt" =>
           /\ nProbes[g] = retry[g]
           /\ sleeps[g] = ExpectedSleeps(retry[g])
      /\ cpc[g] = "sleep" =>
           /\ nProbes[g] = retry[g] + 1
           /\ nProbes[g] < maxRetry
           /\ sleeps[g] = ExpectedSleeps(nProbes[g])
      /\ (cpc[g] \in {"update", "returned"} /\ maxRetry >= 1) =>
           /\ nProbes[g] = maxRetry
           /\ sleeps[g] = ExpectedSleeps(maxRetry - 1)
           /\ result[g].Status = "failed"
           /\ cpc[g] = "returned" => ret[g].Status = "failed"

\* C10 witness: maxRetry = 3, three failed attempts, sleeps of 100ms and 200ms.
C10_Witness ==
  \E g \in Checkers :
    /\ cpc[g] = "returned"
    /\ maxRetry = 3
    /\ nProbes[g] = 3 /\ nFailed[g] = 3
    /\ sleeps[g] = <<BaseMs, 2 * BaseMs>>
    /\ ret[g].Status = "failed"

\* The error taxonomy: the ErrorType constants.
Taxonomy == {"network", "timeout", "ssl", "http", "keyword", "invalid", "unknown"}

\* C11 (as claimed): every result CheckTarget returns, for every maxRetry >= 0,
\* has status success or failed, has an empty errorKind exactly when its
\* status is success, and a failed one carries a kind of the taxonomy.
C11_ReturnedResultIsClassified ==
  \A g \in Checkers :
    cpc[g] \in {"hit", "returned"} =>
      /\ ret[g].Status \in {"success", "failed"}
      /\ ret[g].ErrorType = "" <=> ret[g].Status = "success"
      /\ ret[g].Status = "failed" => ret[g].ErrorType \in Taxonomy

\* C12: the cache is written only by the step that follows the end of a
\* call's retry loop; every call that missed the cache stores the result it
\* returns under its URL, replacing whatever was there, before it returns;
\* no other step changes an entry (an entry only grows older, or is swept),
\* and the steps of a call that is still in its loop leave the cache alone.
C12_CachedOnlyAfterTheLoop ==
  [][/\ \A u \in DOMAIN cache' :
          (u \notin DOMAIN cache \/ cache'[u] \notin {cache[u], Older(cache[u])})
            => \E g \in Checkers :
                 /\ cpc[g] = "update" /\ cpc'[g] = "returned"
                 /\ curl[g] = u
                 /\ cache'[u] = result[g]
     /\ \A g \in Checkers :
          (cpc[g] # "returned" /\ cpc'[g] = "returned")
            => /\ cpc[g] = "update"
               /\ curl[g] \in DOMAIN cache'
               /\ cache'[curl[g]] = result[g]
               /\ ret'[g] = result[g]
     /\ \A g \in Checkers :
          (/\ cpc[g] \in {"attempt", "sleep"}
           /\ (cpc'[g] # cpc[g] \/ nProbes'[g] # nProbes[g]))
            => cache' = cache]_vars

\* C12 witness: a call that needed a retry has returned and its result is
\* the cache entry of its URL.
C12_Witness ==
  \E g \in Checkers :
    /\ cpc[g] = "returned"
    /\ nProbes[g] >= 2 /\ Len(sleeps[g]) >= 1
    /\ curl[g] \in DOMAIN cache
    /\ cache[curl[g]] = ret[g]

\* The GET completed: a response arrived and its body was read.
ExchangeCompleted(x) == ~x.reqErr /\ ~x.doFails /\ ~x.readErr

\* C13 (as claimed): an exchange that completes with a status outside 2xx is
\* classified http whether the keyword is in the body or not, and keyword is
\* produced only for a 2xx status with the keyword missing.
C13_StatusCodeBeforeKeyword ==
  (hres # NoOutcome /\ ExchangeCompleted(hx.x)) =>
    /\ (hx.x.status < 200 \/ hx.x.status >= 300) => hres.kind = "http"
    /\ hres.kind = "keyword" =>
         /\ hx.x.status >= 200 /\ hx.x.status < 300
         /\ hx.keyword # "" /\ ~hx.x.bodyHasKeyword

\* The probe got as far as the certificate block.
CertificateInspected(p) ==
  /\ ExchangeCompleted(p.x) /\ p.x.hasCert
  /\ (p.keyword = "" \/ p.x.bodyHasKeyword)

\* C15 (as claimed): with h whole hours to expiry, daysRemaining is
\* floor(h / 24); the text is "expires in N days" for daysRemaining > 0,
\* "expires today" for 0 and "expired N days ago" with N = -daysRemaining
\* below 0; the warning is populated exactly when daysRemaining < 7.
C15_DaysRemainingIsFloor ==
  (hres # NoOutcome /\ CertificateInspected(hx)) =>
    LET daysRemaining == hx.x.hours \div 24 IN
      /\ hres.res.SSLCertExpiry =
           IF daysRemaining > 0 THEN <<"expires in", daysRemaining, "days">>
           ELSE IF daysRemaining = 0 THEN <<"expires today">>
           ELSE <<"expired", 0 - daysRemaining, "days ago">>
      /\ hres.res.Warning # <<>> <=> daysRemaining < 7

\* The tcp:// URLs of the sample whose address is empty, has no port, or
\* has a port that does not resolve.
MalformedTcpUrls == {TcpEmptyUrl, TcpNoPortUrl, TcpBadPortUrl, TcpBigPortUrl}

C16_SweepRemovesExactlyExpired ==
  /\ [][/\ (cacheMu = "free" /\ cacheMu' = "sweep")
             => sweepTodo' = DOMAIN cache /\ cache' = cache
        /\ (cacheMu = "sweep" /\ sweepTodo' # sweepTodo) =>
             \E u \in sweepTodo :
               /\ sweepTodo' = sweepTodo \ {u}
               /\ u \in DOMAIN cache
               /\ cache[u].SinceCheckedAt > cacheTTL => u \notin DOMAIN cache'
               /\ cache[u].SinceCheckedAt <= cacheTTL =>
                    u \in DOMAIN cache' /\ cache'[u] = cache[u]
               /\ \A w \in DOMAIN cache \ {u} :
                    w \in DOMAIN cache' /\ cache'[w] = cache[w]
               /\ DOMAIN cache' \subseteq DOMAIN cache
        /\ (cacheMu = "sweep" /\ sweepTodo' = sweepTodo) =>
             /\ DOMAIN cache' = DOMAIN cache
             /\ \A w \in DOMAIN cache : cache'[w] \in {cache[w], Older(cache[w])}
        /\ (cacheMu = "sweep" /\ cacheMu' = "free") =>
             sweepTodo = {} /\ cache' = cache]_vars
  /\ (cacheMu = "sweep") ~> (cacheMu = "free")

\* C16 witness: a sweep has visited every entry while calls were made; it
\* deleted an entry and kept one that is within the TTL.
C16_Witness ==
  /\ cacheMu = "sweep" /\ sweepTodo = {}
  /\ swept # {}
  /\ \E u \in DOMAIN cache : cache[u].SinceCheckedAt <= cacheTTL

\* Target i is inside CheckTarget: called and not yet returned.
InsideCheckTarget(i) == cpc[i] \in {"attempt", "sleep", "update"}

\* C17: in SubmitTargets a target is inside CheckTarget, probing or sleeping
\* in backoff, only while it holds the slot acquired for it, and the targets
\* inside CheckTarget are never more than the configured concurrency.
C17_InsideCheckTargetWithinLimit ==
  /\ \A i \in Callers : cpc[i] # "idle" => Admitted(i)
  /\ \A i \in Callers : InsideCheckTarget(i) => pc[i] = "holding"
  /\ Cardinality({i \in Callers : InsideCheckTarget(i)}) <= semCap

\* C17 witness: the limit is 1, a target sleeps in backoff holding the
\* slot, and the Acquire for the next target waits.
C17_Witness ==
  /\ semCap = 1
  /\ \E i \in Callers : cpc[i] = "sleep" /\ pc[i] = "holding"
  /\ \E j \in Callers : pc[j] = "parked" /\ cpc[j] = "idle"

\* C18 (as claimed): when the caller that pops finds a task that is not its
\* own, its own task is in the heap exactly once afterwards, no slot token
\* was consumed, and the caller is back in cond.Wait with the mutex
\* released, so that the owner of the popped task can take the slot.
C18_MismatchRequeuesAndWaits ==
  [][\A c \in Callers :
       (pc[c] = "pop" /\ pc'[c] \notin {"pop", "return", "panicked"}) =>
         /\ Cardinality({i \in 1..Len(pq') : pq'[i] = c}) = 1
         /\ semLen' = semLen
         /\ pc'[c] = "parked"
         /\ mu' = Unlocked]_vars

\* C19: once an attempt of a call has succeeded, the call makes no further
\* attempt and no further sleep (it has made one attempt and one sleep per
\* earlier failure, and is on its way to the cache and the return), and its
\* result is success with empty errorMessage and empty errorKind, whatever
\* the earlier attempts returned.
C19_SuccessEndsTheCall ==
  \A g \in Checkers :
    (nProbes[g] > 0 /\ errType[g] = "") =>
      /\ cpc[g] \in {"update", "returned"}
      /\ nProbes[g] = nFailed[g] + 1
      /\ nProbes[g] <= maxRetry
      /\ Len(sleeps[g]) = nFailed[g]
      /\ sleepLeft[g] = 0
      /\ result[g].Status = "success"
      /\ result[g].ErrorMsg = "" /\ result[g].ErrorType = ""
      /\ cpc[g] = "returned" =>
           /\ ret[g].Status = "success"
           /\ ret[g].ErrorMsg = "" /\ ret[g].ErrorType = ""

\* C19 witness: the third attempt succeeded after two failures.
C19_Witness ==
  \E g \in Checkers :
    /\ cpc[g] = "returned"
    /\ nFailed[g] = 2 /\ nProbes[g] = 3
    /\ ret[g].Status = "success"

\* The attempt of this step failed.
AttemptFails(g) == cpc[g] = "attempt" /\ nFailed'[g] = nFailed[g] + 1

\* C20: a failed attempt that is not the last one of its call, whatever its
\* kind, is followed by the backoff sleep and then by another attempt; the
\* failure of the last attempt makes the result failed with a non-empty
\* errorMessage and the kind that this attempt returned; and every failed
\* result, under construction, returned or cached, has a non-empty message
\* and a kind of the taxonomy.
C20_FailuresRetriedThenReported ==
  [][\A g \in Checkers :
       /\ (AttemptFails(g) /\ nProbes[g] + 1 < maxRetry) =>
            /\ cpc'[g] = "sleep"
            /\ sleepLeft'[g] = BaseMs * 2 ^ retry[g]
            /\ result'[g].Status = ""
       /\ (cpc[g] = "sleep" /\ cpc'[g] # "sleep") =>
            cpc'[g] = "attempt" /\ sleepLeft[g] = 0
       /\ (AttemptFails(g) /\ nProbes[g] + 1 = maxRetry) =>
            /\ cpc'[g] = "update"
            /\ result'[g].Status = "failed"
            /\ result'[g].ErrorMsg # ""
            /\ result'[g].ErrorType = errType'[g]
            /\ errType'[g] \in Taxonomy
       /\ result[g].Status = "failed" =>
            /\ nProbes[g] = maxRetry
            /\ result[g].ErrorMsg # "" /\ result[g].ErrorType = errType[g]
       /\ ret[g].Status = "failed" =>
            ret[g].ErrorMsg # "" /\ ret[g].ErrorType \in Taxonomy
       /\ \A u \in DOMAIN cache :
            cache[u].Status = "failed" =>
              cache[u].ErrorMsg # "" /\ cache[u].ErrorType \in Taxonomy]_vars

\* C20 witness: two invalid attempts were each followed by a sleep and the
\* third one made the result failed with kind invalid.
C20_Witness ==
  \E g \in Checkers :
    /\ cpc[g] = "update"
    /\ nProbes[g] = 3 /\ Len(sleeps[g]) = 2
    /\ errType[g] = "invalid"
    /\ result[g].Status = "failed" /\ result[g].ErrorType = "invalid"
    /\ result[g].ErrorMsg # ""

\* What follows the six characters of the scheme prefix is a host:port that
\* splits and whose port resolves.
WellFormedBehindScheme(u) ==
  LET address == SubSeq(u, Len(TcpPrefix) + 1, Len(u)) IN
    /\ address # <<>>
    /\ SplitHostPort(address).err = ""
    /\ LookupPort(SplitHostPort(address).port).err = ""

\* C21 (as claimed): a URL goes to the TCP probe exactly when its lower-cased
\* form starts with tcp://, and a URL so dispatched whose address behind the
\* scheme, in whatever letter case the scheme is written, is a well-formed
\* host:port is never rejected as invalid: each of its attempts dials.
C21_SchemeCaseDoesNotInvalidate ==
  \A g \in Checkers :
    /\ cpc[g] # "idle" =>
         (IsTcp(curl[g]) <=> HasPrefix(ToLower(curl[g]), TcpPrefix))
    /\ (IsTcp(curl[g]) /\ WellFormedBehindScheme(curl[g])) =>
         /\ nDials[g] = nProbes[g]
         /\ errType[g] # "invalid"

\* C22 (as claimed): an exchange that completes and yields a peer certificate
\* leaves the expiry description populated, and the warning too when fewer
\* than 7 days remain, whatever the attempt is then classified as (keyword
\* and http included); the warning never changes the classification, which
\* is the one the same exchange gets with a certificate far from expiry.
C22_CertificateInfoOnEveryOutcome ==
  (hres # NoOutcome /\ ExchangeCompleted(hx.x) /\ hx.x.hasCert) =>
    /\ hres.res.SSLCertExpiry # <<>>
    /\ CertDays(hx.x.hours) < 7 => hres.res.Warning # <<>>
    /\ hres.kind =
         checkHTTP([hx.x EXCEPT !.hours = MaxCertHours], hx.keyword,
                   NoProbeFields).kind

\* C23: in every interleaving of calls, sweeps and the passing of time, a
\* lookup hands out an entry only if it is the cached entry of the URL asked
\* for and its age at the lookup is at most cacheTTL; an entry older than
\* cacheTTL is never handed out, also while no sweep has removed it yet.
C23_LookupNeverReturnsExpired ==
  [][\A g \in Checkers :
       /\ (cpc[g] = "idle" /\ cpc'[g] = "hit") =>
            /\ curl'[g] \in DOMAIN cache
            /\ ret'[g] = cache[curl'[g]]
            /\ ret'[g].SinceCheckedAt <= cacheTTL
       /\ (/\ cpc[g] = "idle" /\ cpc'[g] # "idle"
           /\ curl'[g] \in DOMAIN cache
           /\ cache[curl'[g]].SinceCheckedAt > cacheTTL) =>
            /\ cpc'[g] # "hit"
            /\ ret'[g] = ret[g]]_vars

\* C23 witness: the cache still holds an entry older than cacheTTL that no
\* sweep has removed, and a lookup of its URL has just missed.
C23_Witness ==
  \E g \in Checkers :
    /\ cpc[g] \in {"attempt", "update"} /\ nProbes[g] = 0
    /\ curl[g] \in DOMAIN cache
    /\ cache[curl[g]].SinceCheckedAt > cacheTTL
    /\ sweepTodo = {} /\ swept = {}

\* C24 (as claimed): for every MaxRetry >= 1 and every i < MaxRetry the
\* interval computed for attempt i, a 64-bit count of nanoseconds, is
\* strictly positive and not smaller than the interval of attempt i - 1:
\* 100ms * 2^i neither overflows nor wraps.
C24_BackoffPositiveAndMonotone ==
  \A k \in 1..bi :
    /\ ~IsNegative64(backoff[k])
    /\ ~IsZero64(backoff[k])
    /\ k > 1 => ~Less64(backoff[k], backoff[k - 1])

\* C25 (as claimed): while the limiter is open, the tokens in sem are as many
\* as the callers that have returned from Acquire and not yet called Release,
\* counting with them a caller whose own task was popped and whose call is
\* returning; no token is in sem on behalf of a caller that does not return.
C25_TokensMatchHolders ==
  (~closed /\ ~semClosed) =>
    semLen = Cardinality({c \in Callers : pc[c] \in {"holding", "return"}})

\* C26 (as claimed): no goroutine is at cl.mu.Lock() while it is itself the
\* owner of cl.mu: the non-reentrant mutex is never locked again by the
\* goroutine that holds it.
C26_NoRelockWhileHolding ==
  \A c \in Callers : pc[c] \in {"lock", "rel_lock"} => mu # c

\* C27 (as claimed): SubmitTargets, for its finite target list and a limit
\* of at least 1, eventually passes wg.Wait and responds; when it responds
\* each target has had its one Acquire and its one matching Release, and no
\* slot of the request's limiter is still held.
C27_RespondsWithNoSlotHeld ==
  /\ <>(hpc = "responded")
  /\ [](hpc = "responded" =>
          /\ \A i \in Callers : pc[i] = "done"
          /\ semLen = 0)

\* The retry loop is over: an attempt succeeded or the last retry was made.
LoopOver == hretry >= 1 /\ (StopsRetrying(hres.kind) \/ hretry = maxRetry)

\* C28 (as claimed): the statusCode, keywordMatched, certificate-expiry
\* description and warning of the result a call returns are those its last
\* attempt observed, that is, what that attempt alone leaves in a result; a
\* value written by an earlier attempt does not survive into it.
C28_FieldsAreTheLastAttempts ==
  LoopOver => hres.res = checkHTTP(hx.x, hx.keyword, NoProbeFields).res

====
